---- MODULE Spec2Model ----
(***************************************************************************)
(* A model of inwx-dns-recordmaster's `sync` command: the reconciliation   *)
(* of the locally configured DNS records of each domain with the records   *)
(* held by the remote nameserver (src/recordmaster).                       *)
(*                                                                         *)
(* Python values whose type matters to the code (id, ttl, prio: None, an   *)
(* int, or a string read from YAML) are tagged pairs <<tag, n>>.  Record   *)
(* contents are strings, modelled as tuples of character codes, so that    *)
(* difflib's similarity ratio and Python's string order are computed.      *)
(***************************************************************************)
EXTENDS Integers, Sequences, FiniteSets, TLC

\* ------------------------------------------------------------------ values

None == <<"none", 0>>
IntV(n) == <<"int", n>>
StrV(n) == <<"str", n>>

\* Python truthiness of None, an int or a (non-empty) string
truthy(v) == (v[1] = "int" /\ v[2] # 0) \/ v[1] = "str"

\* isinstance(v, int)
isinstance_int(v) == v[1] = "int"

RECORD_KEYS == <<"id", "name", "type", "content", "ttl", "prio">>

RecordKeySet == {RECORD_KEYS[k] : k \in DOMAIN RECORD_KEYS}

DefaultTTL == 3600

DefaultPrio == 0

\* Record(): the dataclass defaults
Record == [id |-> None, name |-> "", type |-> "", content |-> <<>>,
           ttl |-> IntV(DefaultTTL), prio |-> IntV(DefaultPrio)]

\* `if value := getattr(rec, key)`: truthiness of one attribute of a record
attr_truthy(rec, key) ==
    IF key \in {"id", "ttl", "prio"} THEN truthy(rec[key])
    ELSE IF key = "content" THEN rec[key] # <<>>
    ELSE rec[key] # ""

\* Record.import_records(data, domain, root): data is a dict (a function on
\* the keys it holds); keys outside RECORD_KEYS are ignored with a warning
import_records(data, domain, root) ==
    LET name == IF domain # "" /\ root # "" THEN domain \o "." \o root
                ELSE IF domain # "" THEN domain
                ELSE Record.name
    IN [k \in RecordKeySet |->
          IF k \in DOMAIN data THEN data[k]
          ELSE IF k = "name" THEN name
          ELSE Record[k]]

\* ------------------------------------------------------- sequence helpers

RECURSIVE SeqMap(_, _)
\* [Op(x) for x in s]
SeqMap(Op(_), s) ==
    IF s = <<>> THEN <<>> ELSE <<Op(Head(s))>> \o SeqMap(Op, Tail(s))

RECURSIVE SeqFilter(_, _)
\* [x for x in s if Test(x)]
SeqFilter(Test(_), s) ==
    IF s = <<>> THEN <<>>
    ELSE (IF Test(Head(s)) THEN <<Head(s)>> ELSE <<>>) \o SeqFilter(Test, Tail(s))

Range(s) == {s[k] : k \in DOMAIN s}

RECURSIVE str_less(_, _)
\* Python's `<` on two strings (tuples of character codes)
str_less(a, b) ==
    IF b = <<>> THEN FALSE
    ELSE IF a = <<>> THEN TRUE
    ELSE IF Head(a) # Head(b) THEN Head(a) < Head(b)
    ELSE str_less(Tail(a), Tail(b))

\* --------------------------------------------------- local configuration

\* convert_local_records_to_data: the records under "." first, then those of
\* the other keys; an entry is [pos |-> key, data |-> dict]
convert_local_records_to_data(domainname, records) ==
    LET root_records == SeqFilter(LAMBDA e : e.pos = ".", records)
        sub_records == SeqFilter(LAMBDA e : e.pos # ".", records)
    IN SeqMap(LAMBDA e : import_records(e.data, domainname, ""), root_records)
       \o SeqMap(LAMBDA e : import_records(e.data, e.pos, domainname), sub_records)

\* check_local_records_config without its search for duplicates
check_local_records_config_without_duplicates(records) ==
    /\ \A k \in DOMAIN records : records[k].id = None
    /\ \A k \in DOMAIN records :
          isinstance_int(records[k].ttl) /\ isinstance_int(records[k].prio)

\* check_local_records_config: TRUE iff none of the three sys.exit(1) is taken
check_local_records_config(records) ==
    LET local_ids == SeqFilter(LAMBDA rec : rec.id # None, records)
        signature(rec) == <<rec.type, rec.name, rec.content>>
        duplicates == {k \in DOMAIN records :
                         \E j \in 1..(k - 1) : signature(records[j]) = signature(records[k])}
        no_ints == SeqFilter(LAMBDA rec : ~isinstance_int(rec.ttl) \/ ~isinstance_int(rec.prio),
                             records)
    IN local_ids = <<>> /\ duplicates = {} /\ no_ints = <<>>

\* ------------------------------------------------- difflib (similarity)

\* SequenceMatcher.find_longest_match on whole strings: <<i, j, k>> with
\* a[i..i+k-1] = b[j..j+k-1], k largest, then i smallest, then j smallest
find_longest_match(a, b) ==
    LET Blocks == {t \in (1..Len(a)) \X (1..Len(b)) \X (1..Len(a)) :
                     /\ t[1] + t[3] - 1 <= Len(a)
                     /\ t[2] + t[3] - 1 <= Len(b)
                     /\ SubSeq(a, t[1], t[1] + t[3] - 1) = SubSeq(b, t[2], t[2] + t[3] - 1)}
        Before(s, t) == \/ s[3] > t[3]
                        \/ s[3] = t[3] /\ s[1] < t[1]
                        \/ s[3] = t[3] /\ s[1] = t[1] /\ s[2] <= t[2]
    IN IF Blocks = {} THEN <<1, 1, 0>>
       ELSE CHOOSE s \in Blocks : \A t \in Blocks : Before(s, t)

RECURSIVE matching_size(_, _)
\* the sum of the sizes of SequenceMatcher.get_matching_blocks(): the longest
\* block, then recursively the pieces to its left and to its right
matching_size(a, b) ==
    IF a = <<>> \/ b = <<>> THEN 0
    ELSE LET m == find_longest_match(a, b)
             i == m[1]
             j == m[2]
             k == m[3]
         IN IF k = 0 THEN 0
            ELSE k + matching_size(SubSeq(a, 1, i - 1), SubSeq(b, 1, j - 1))
                   + matching_size(SubSeq(a, i + k, Len(a)), SubSeq(b, j + k, Len(b)))

\* SequenceMatcher.ratio() = 2.0 * matches / (len(a) + len(b)), kept as the
\* fraction <<numerator, denominator>>; 1.0 for two empty strings
ratio(a, b) ==
    IF Len(a) + Len(b) = 0 THEN <<1, 1>>
    ELSE <<2 * matching_size(a, b), Len(a) + Len(b)>>

\* cutoff=0.6
CutoffNum == 6

CutoffDen == 10

\* n=10
MaxCloseMatches == 10

ratio_geq(r, s) == r[1] * s[2] >= s[1] * r[2]

ratio_gt(r, s) == r[1] * s[2] > s[1] * r[2]

RECURSIVE nlargest_smaller_string_first(_, _)
\* nlargest putting, of two tuples with the same score, the smaller string first
nlargest_smaller_string_first(n, result) ==
    IF n = 0 \/ result = {} THEN <<>>
    ELSE LET best == CHOOSE p \in result : \A q \in result :
                        \/ ratio_gt(p[1], q[1])
                        \/ ~ratio_gt(q[1], p[1]) /\ ~str_less(q[2], p[2])
         IN <<best>> \o nlargest_smaller_string_first(n - 1, result \ {best})

RECURSIVE nlargest(_, _)
\* heapq.nlargest(n, result) on (score, x) tuples: sorted descending by score,
\* then by x
nlargest(n, result) ==
    IF n = 0 \/ result = {} THEN <<>>
    ELSE LET best == CHOOSE p \in result : \A q \in result :
                        \/ ratio_gt(p[1], q[1])
                        \/ ~ratio_gt(q[1], p[1]) /\ ~str_less(p[2], q[2])
         IN <<best>> \o nlargest(n - 1, result \ {best})

\* get_close_matches keeping every possibility, whatever its ratio
get_close_matches_without_cutoff(word, possibilities) ==
    LET result == {<<ratio(possibilities[k], word), possibilities[k]>> :
                     k \in DOMAIN possibilities}
    IN SeqMap(LAMBDA p : p[2], nlargest(MaxCloseMatches, result))

\* difflib.get_close_matches(word, possibilities, n, cutoff): the strings of
\* possibilities whose ratio with word reaches the cutoff, best first
get_close_matches(word, possibilities) ==
    LET result == {<<ratio(possibilities[k], word), possibilities[k]>> :
                     k \in {k \in DOMAIN possibilities :
                              ratio_geq(ratio(possibilities[k], word), <<CutoffNum, CutoffDen>>)}}
    IN SeqMap(LAMBDA p : p[2], nlargest(MaxCloseMatches, result))

\* ---------------------------------------------------------------- matching
\* Local records are addressed by their index in domain.local_records.

\* _find_partial_matches without the test `not loc_rec.id`
find_partial_matches_with_assigned(local, rem_rec) ==
    SeqFilter(LAMBDA k : local[k].name = rem_rec.name /\ local[k].type = rem_rec.type,
              [k \in 1..Len(local) |-> k])

\* _find_partial_matches
find_partial_matches(local, rem_rec) ==
    SeqFilter(LAMBDA k : /\ ~truthy(local[k].id)
                         /\ local[k].name = rem_rec.name
                         /\ local[k].type = rem_rec.type,
              [k \in 1..Len(local) |-> k])

\* _assign_remote_id: loc_rec.id = rem_rec.id
assign_remote_id(local, k, rem_rec) ==
    [local EXCEPT ![k] = [@ EXCEPT !.id = rem_rec.id]]

\* _find_closest_matches: for each close content, the first partial match
\* that has it
find_closest_matches(local, partial_matches, rem_rec_content) ==
    LET close_content_matches ==
            get_close_matches(rem_rec_content,
                              SeqMap(LAMBDA k : local[k].content, partial_matches))
        first_with(c) == SeqFilter(LAMBDA k : local[k].content = c, partial_matches)[1]
    IN SeqMap(first_with, close_content_matches)

\* the loop body sending a single partial match, too, through the search for
\* close contents
match_one_by_similarity(local, unmatched, rem_rec) ==
    LET partial_matches == find_partial_matches(local, rem_rec)
        closest_matches == find_closest_matches(local, partial_matches, rem_rec.content)
    IN IF closest_matches # <<>>
       THEN [local |-> assign_remote_id(local, closest_matches[1], rem_rec),
             unmatched |-> unmatched]
       ELSE [local |-> local, unmatched |-> Append(unmatched, rem_rec)]

\* One iteration of the loop of match_remote_to_local_records, with
\* _process_multiple_matches inlined: the new local records and the new
\* unmatched_remote list
match_one(local, unmatched, rem_rec) ==
    LET partial_matches == find_partial_matches(local, rem_rec)
    IN IF Len(partial_matches) = 1
       THEN [local |-> assign_remote_id(local, partial_matches[1], rem_rec),
             unmatched |-> unmatched]
       ELSE IF Len(partial_matches) > 1
       THEN LET closest_matches ==
                    find_closest_matches(local, partial_matches, rem_rec.content)
            IN IF closest_matches # <<>>
               THEN [local |-> assign_remote_id(local, closest_matches[1], rem_rec),
                     unmatched |-> unmatched]
               ELSE [local |-> local, unmatched |-> Append(unmatched, rem_rec)]
       ELSE [local |-> local, unmatched |-> Append(unmatched, rem_rec)]

\* ------------------------------------------------------------- sync helpers

\* DomainStats(): all counters 0
DomainStats == [total_remote |-> 0, updated |-> 0, added |-> 0, deleted |-> 0,
                ignored |-> 0, unchanged |-> 0, changed |-> 0]

\* Domain(): the fields of the dataclass that sync reads or writes
Domain == [name |-> "", remote_records |-> <<>>, local_records |-> <<>>,
           stats |-> DomainStats]

\* the loop variable of sync_existing_local_to_remote: the local records
\* that have an id
matched_local(local) == SeqFilter(LAMBDA loc_rec : truthy(loc_rec.id), local)

\* main.py line 186: the local records without an id
unmatched_local_of(local) == SeqFilter(LAMBDA loc_rec : ~truthy(loc_rec.id), local)

\* one field of sync_existing_local_to_remote's inner loop: is the key put
\* into `changes`?
field_changed(loc_val, rem_val) == loc_val # rem_val

\* `changes` collected over content and ttl only
collect_changes_without_prio(loc_rec, remote) ==
    LET rem_rec == SeqFilter(LAMBDA r : r.id = loc_rec.id, remote)[1]
    IN [key \in {key \in {"content", "ttl"} : loc_rec[key] # rem_rec[key]} |-> loc_rec[key]]

\* the `changes` dict sync_existing_local_to_remote collects for one matched
\* local record, over RECORD_KEYS[3:]
collect_changes(loc_rec, remote) ==
    LET rem_rec == SeqFilter(LAMBDA r : r.id = loc_rec.id, remote)[1]
        keys == {RECORD_KEYS[k] : k \in 4..Len(RECORD_KEYS)}
    IN [key \in {key \in keys : field_changed(loc_rec[key], rem_rec[key])} |-> loc_rec[key]]

\* the `newrecord` dict create_missing_at_remote builds for one record
newrecord(rec) ==
    [key \in {key \in RecordKeySet : attr_truthy(rec, key)} |-> rec[key]]

\* the ignore test comparing the types without regard to case
type_ignored_any_case(type, ignore_types) ==
    type \in Range(ignore_types) \/ (type = "soa" /\ "SOA" \in Range(ignore_types))

\* delete_unconfigured_at_remote's test `rec.type not in ignore_types`
type_ignored(type, ignore_types) == type \in Range(ignore_types)

\* the result codes inwx_api tells apart
CodeOk == 1000

CodeDomainUnknown == 2303

\* the codes the remote API answers with in this model: success, "domain
\* unknown", and one other error
ApiCodes == {CodeOk, CodeDomainUnknown, 2002}

\* inwx_api without its `if dry:` return
inwx_api_without_dry(interactive, dry_, answer, code) ==
    IF interactive /\ ~answer THEN "declined"
    ELSE IF code = 1000 THEN "ok"
    ELSE "exit"

\* inwx_api exiting only on code 2303, returning any other result
inwx_api_exit_on_2303_only(interactive, dry_, answer, code) ==
    IF interactive /\ ~answer THEN "declined"
    ELSE IF dry_ THEN "dry"
    ELSE IF code = 2303 THEN "exit"
    ELSE "ok"

\* inwx_api: what becomes of one call, given the operator's answer to the
\* confirmation (asked only if interactive) and the code the API would return
\*   "declined" return {} without calling    "dry"  return {} without calling
\*   "ok"       api.call_api returned 1000   "exit" api.call_api, then sys.exit(1)
inwx_api(interactive, dry_, answer, code) ==
    IF interactive /\ ~answer THEN "declined"
    ELSE IF dry_ THEN "dry"
    ELSE IF code = CodeOk THEN "ok"
    ELSE "exit"

\* the record of one inwx_api invocation kept in `calls`: the domain sync was
\* at, the method and its parameters, whether the operator was asked, what
\* became of the call, and the code api.call_api returned if it was reached
api_call(dom, method, params, interactive, dry_, answer, code) ==
    LET outcome == inwx_api(interactive, dry_, answer, code)
    IN [dom |-> dom, method |-> method, params |-> params, outcome |-> outcome,
        asked |-> interactive,
        code |-> IF outcome \in {"ok", "exit"} THEN code ELSE 0]

\* did the invocation reach api.call_api?
sent(call) == call.outcome \in {"ok", "exit"}

\* stats.updated counting only the calls that were not held back by dry
stats_updated_unless_dry(stats, call) ==
    IF call.outcome = "dry" THEN stats ELSE [stats EXCEPT !.updated = @ + 1]

\* sync_existing_local_to_remote: domain.stats.updated += 1 after inwx_api
\* has returned
stats_updated(stats, call) == [stats EXCEPT !.updated = @ + 1]

\* create_missing_at_remote: domain.stats.added += len(records) after the loop
stats_added(stats, records) == [stats EXCEPT !.added = @ + Len(records)]

\* delete_unconfigured_at_remote: domain.stats.deleted += 1 after inwx_api
\* has returned
stats_deleted(stats, call) == [stats EXCEPT !.deleted = @ + 1]

\* delete_unconfigured_at_remote: domain.stats.ignored += 1
stats_ignored(stats) == [stats EXCEPT !.ignored = @ + 1]

merge(d1, d2) ==
    [key \in DOMAIN d1 \cup DOMAIN d2 |-> IF key \in DOMAIN d2 THEN d2[key] ELSE d1[key]]

\* ------------------------------------------------- the remote nameserver
\* What api.call_api does to the zone it serves when it answers 1000.

all_ids(z) == UNION {{z[d][k].id[2] : k \in DOMAIN z[d]} : d \in DOMAIN z}

max_id(z) == IF all_ids(z) = {} THEN 0 ELSE CHOOSE m \in all_ids(z) : \A n \in all_ids(z) : n <= m

remote_update(records, id, changes) ==
    SeqMap(LAMBDA r : IF r.id = id THEN merge(r, changes) ELSE r, records)

remote_create(records, fields, id) ==
    Append(records, [key \in RecordKeySet |->
                       IF key = "id" THEN id
                       ELSE IF key \in DOMAIN fields THEN fields[key]
                       ELSE Record[key]])

remote_delete(records, id) == SeqFilter(LAMBDA r : r.id # id, records)

\* ------------------------------------------------------------------ export

RECURSIVE str_replace(_, _, _)
\* Python's s.replace(old, new): every occurrence of old, from the left,
\* without overlap (old is not empty)
str_replace(s, old, new) ==
    IF Len(s) < Len(old) THEN s
    ELSE IF SubSeq(s, 1, Len(old)) = old
    THEN new \o str_replace(SubSeq(s, Len(old) + 1, Len(s)), old, new)
    ELSE SubSeq(s, 1, 1) \o str_replace(SubSeq(s, 2, Len(s)), old, new)

RECURSIVE rstrip(_, _)
\* Python's s.rstrip(c) for a single character c
rstrip(s, c) ==
    IF s # "" /\ SubSeq(s, Len(s), Len(s)) = c THEN rstrip(SubSeq(s, 1, Len(s) - 1), c)
    ELSE s

\* to_local_conf_format, lines 122-123: the key a record is filed under
conf_key(self_name, rec) ==
    LET name == str_replace(rec.name, self_name, "")
    IN IF name = "" THEN "." ELSE rstrip(name, ".")

\* to_local_conf_format, lines 129-136: type and content, and ttl and prio
\* unless they have the default value
rec_yaml(rec) ==
    LET others == {RECORD_KEYS[k] : k \in 5..Len(RECORD_KEYS)}
    IN [attr \in {"type", "content"} \cup {attr \in others : rec[attr] # Record[attr]}
          |-> rec[attr]]

RECURSIVE first_occurrences(_)
\* the keys of a dict in the order they were inserted
first_occurrences(keys) ==
    IF keys = <<>> THEN <<>>
    ELSE <<Head(keys)>> \o first_occurrences(SeqFilter(LAMBDA k : k # Head(keys), Tail(keys)))

RECURSIVE dict_items(_, _, _)
\* the entries [pos, data] of the dict `data`, key by key
dict_items(self_name, keys, records) ==
    IF keys = <<>> THEN <<>>
    ELSE SeqMap(LAMBDA rec : [pos |-> Head(keys), data |-> rec_yaml(rec)],
                SeqFilter(LAMBDA rec : conf_key(self_name, rec) = Head(keys), records))
         \o dict_items(self_name, Tail(keys), records)

\* Domain.to_local_conf_format(records, ignore_types) of the domain self_name:
\* the dict under the domain's key, as the sequence of its entries
to_local_conf_format(self_name, records, ignore_types) ==
    LET kept == SeqFilter(LAMBDA rec : ~type_ignored(rec.type, ignore_types), records)
        keys == first_occurrences(SeqMap(LAMBDA rec : conf_key(self_name, rec), kept))
    IN dict_items(self_name, keys, kept)

\* -------------------------------------------------------------------- state

VARIABLES
    args,             \* the arguments sync() was called with
    dry,              \* sync's local `dry` (forced by api_response)
    conf,             \* combine_local_records(...).items(): <<[name, records]>>
    zone,             \* the remote nameserver: domain name -> its records
    response_file,    \* the records in the --api-response file
    pc,               \* where the run is
    di,               \* index in conf of the domain of the for loop
    domain,           \* the Domain dataclass of the current domain
    unmatched_remote, \* match_remote_to_local_records' list
    unmatched_local,  \* main.py line 186
    i,                \* index of the inner loop (matching, update, create, delete)
    calls,            \* the inwx_api invocations of this run, in order
    finished,         \* history: a summary of each domain sync has finished
    run               \* 1 for the first sync() of the behaviour, 2 for a second

vars == <<args, dry, conf, zone, response_file, pc, di, domain,
          unmatched_remote, unmatched_local, i, calls, finished, run>>

\* the state a process starts in, for one choice of arguments, local
\* configuration and remote zone
InitWith(Args, Worlds) ==
    /\ args \in Args
    /\ \E w \in Worlds : conf = w.conf /\ zone = w.zone
    /\ response_file = IF args.only_domain \in DOMAIN zone
                       THEN zone[args.only_domain] ELSE <<>>
    /\ dry = args.dry
    /\ pc = "sync"
    /\ di = 1
    /\ domain = Domain
    /\ unmatched_remote = <<>>
    /\ unmatched_local = <<>>
    /\ i = 1
    /\ calls = <<>>
    /\ finished = <<>>
    /\ run = 1

\* ------------------------------------------------------------------ actions

\* sync, lines 126-141: --api-response implies --dry and needs --domain
SyncEntry ==
    /\ pc = "sync"
    /\ dry' = (args.api_response \/ args.dry)
    /\ pc' = IF args.api_response /\ args.only_domain = "" THEN "exit" ELSE "loop"
    /\ UNCHANGED <<args, conf, zone, response_file, di, domain, unmatched_remote,
                   unmatched_local, i, calls, finished, run>>

\* sync, lines 146-148: skip a domain other than the one asked for
SkipDomain ==
    /\ pc = "loop"
    /\ di <= Len(conf)
    /\ args.only_domain # "" /\ conf[di].name # args.only_domain
    /\ di' = di + 1
    /\ UNCHANGED <<args, dry, conf, zone, response_file, pc, domain, unmatched_remote,
                   unmatched_local, i, calls, finished, run>>

\* sync, lines 152-157: a fresh Domain, filled with the local records
EnterDomain ==
    /\ pc = "loop"
    /\ di <= Len(conf)
    /\ ~(args.only_domain # "" /\ conf[di].name # args.only_domain)
    /\ domain' = [Domain EXCEPT
                    !.name = conf[di].name,
                    !.local_records =
                        convert_local_records_to_data(conf[di].name, conf[di].records)]
    /\ unmatched_remote' = <<>>
    /\ unmatched_local' = <<>>
    /\ i' = 1
    /\ pc' = "check"
    /\ UNCHANGED <<args, dry, conf, zone, response_file, di, calls, finished, run>>

\* sync, line 160: check_local_records_config exits on a configuration error
CheckLocal ==
    /\ pc = "check"
    /\ pc' = IF check_local_records_config(domain.local_records) THEN "fetch" ELSE "exit"
    /\ UNCHANGED <<args, dry, conf, zone, response_file, di, domain, unmatched_remote,
                   unmatched_local, i, calls, finished, run>>

\* sync, line 163: convert_remote_records_to_data reads the snapshot, from
\* the API (inwx_api without interactive and dry) or from the response file
FetchRemote ==
    /\ pc = "fetch"
    /\ \E code \in ApiCodes :
         LET call == api_call(domain.name, "nameserver.info", [domain |-> domain.name],
                              FALSE, FALSE, TRUE, code)
             failed == ~args.api_response /\ call.outcome = "exit"
             record == IF args.api_response THEN response_file ELSE zone[domain.name]
         IN /\ calls' = IF args.api_response THEN calls ELSE Append(calls, call)
            /\ pc' = IF failed THEN "exit" ELSE "match"
            /\ domain' = IF failed THEN domain
                         ELSE [domain EXCEPT !.remote_records =
                                 SeqMap(LAMBDA rec : import_records(rec, "", ""), record)]
    /\ UNCHANGED <<args, dry, conf, zone, response_file, di, unmatched_remote,
                   unmatched_local, i, finished, run>>

\* match_remote_to_local_records: one iteration of its loop
MatchStep ==
    /\ pc = "match"
    /\ i <= Len(domain.remote_records)
    /\ LET m == match_one(domain.local_records, unmatched_remote, domain.remote_records[i])
       IN /\ domain' = [domain EXCEPT !.local_records = m.local]
          /\ unmatched_remote' = m.unmatched
    /\ i' = i + 1
    /\ UNCHANGED <<args, dry, conf, zone, response_file, pc, di, unmatched_local,
                   calls, finished, run>>

\* sync, lines 184-189: the matching has returned; the unmatched local
\* records are collected (cache_data writes a file nothing reads back)
AfterMatch ==
    /\ pc = "match"
    /\ i > Len(domain.remote_records)
    /\ unmatched_local' = unmatched_local_of(domain.local_records)
    /\ pc' = "update"
    /\ i' = 1
    /\ UNCHANGED <<args, dry, conf, zone, response_file, di, domain, unmatched_remote,
                   calls, finished, run>>

\* sync_existing_local_to_remote: one iteration of its outer loop
UpdateStep ==
    /\ pc = "update"
    /\ i <= Len(matched_local(domain.local_records))
    /\ \E answer \in BOOLEAN, code \in ApiCodes :
         LET loc_rec == matched_local(domain.local_records)[i]
             changes == collect_changes(loc_rec, domain.remote_records)
             call == api_call(domain.name, "nameserver.updateRecord", merge([id |-> loc_rec.id], changes),
                              args.interactive, dry, answer, code)
         IN IF DOMAIN changes = {}
            THEN /\ i' = i + 1
                 /\ UNCHANGED <<pc, domain, calls, zone>>
            ELSE /\ calls' = Append(calls, call)
                 /\ zone' = IF call.outcome = "ok"
                            THEN [zone EXCEPT ![domain.name] =
                                    remote_update(@, loc_rec.id, changes)]
                            ELSE zone
                 /\ pc' = IF call.outcome = "exit" THEN "exit" ELSE pc
                 /\ domain' = IF call.outcome = "exit" THEN domain
                              ELSE [domain EXCEPT !.stats = stats_updated(@, call)]
                 /\ i' = IF call.outcome = "exit" THEN i ELSE i + 1
    /\ UNCHANGED <<args, dry, conf, response_file, di, unmatched_remote,
                   unmatched_local, finished, run>>

\* sync_existing_local_to_remote returns
UpdateDone ==
    /\ pc = "update"
    /\ i > Len(matched_local(domain.local_records))
    /\ pc' = "create"
    /\ i' = 1
    /\ UNCHANGED <<args, dry, conf, zone, response_file, di, domain, unmatched_remote,
                   unmatched_local, calls, finished, run>>

\* create_missing_at_remote: one iteration of its loop
CreateStep ==
    /\ pc = "create"
    /\ i <= Len(unmatched_local)
    /\ \E answer \in BOOLEAN, code \in ApiCodes :
         LET rec == unmatched_local[i]
             call == api_call(domain.name, "nameserver.createRecord",
                              merge([domain |-> domain.name], newrecord(rec)),
                              args.interactive, dry, answer, code)
         IN /\ calls' = Append(calls, call)
            /\ zone' = IF call.outcome = "ok"
                       THEN [zone EXCEPT ![domain.name] =
                               remote_create(@, newrecord(rec), IntV(max_id(zone) + 1))]
                       ELSE zone
            /\ pc' = IF call.outcome = "exit" THEN "exit" ELSE pc
            /\ i' = IF call.outcome = "exit" THEN i ELSE i + 1
    /\ UNCHANGED <<args, dry, conf, response_file, di, domain, unmatched_remote,
                   unmatched_local, finished, run>>

\* the summary of the current domain appended to `finished` when sync is
\* done with it
summary(stats) ==
    [run |-> run, name |-> domain.name, dry |-> dry, args |-> args,
     local |-> convert_local_records_to_data(conf[di].name, conf[di].records),
     remote |-> domain.remote_records, calls |-> calls, stats |-> stats]

\* sync entering the delete step whether or not preserve_remote is set
after_create_always_delete(preserve_remote) == "delete"

\* sync, line 200, `if not preserve_remote:`: where the run goes after the
\* create step
after_create(preserve_remote) == IF preserve_remote THEN "loop" ELSE "delete"

\* create_missing_at_remote returns: stats.added += len(records); then sync,
\* lines 200-215: with preserve_remote the domain is done
CreateDone ==
    /\ pc = "create"
    /\ i > Len(unmatched_local)
    /\ domain' = [domain EXCEPT !.stats = stats_added(@, unmatched_local)]
    /\ i' = 1
    /\ pc' = after_create(args.preserve_remote)
    /\ di' = IF after_create(args.preserve_remote) = "loop" THEN di + 1 ELSE di
    /\ finished' = IF after_create(args.preserve_remote) = "loop"
                   THEN Append(finished, summary(domain'.stats)) ELSE finished
    /\ UNCHANGED <<args, dry, conf, zone, response_file, unmatched_remote,
                   unmatched_local, calls, run>>

\* delete_unconfigured_at_remote: one iteration of its loop
DeleteStep ==
    /\ pc = "delete"
    /\ i <= Len(unmatched_remote)
    /\ \E answer \in BOOLEAN, code \in ApiCodes :
         LET rec == unmatched_remote[i]
             call == api_call(domain.name, "nameserver.deleteRecord", [id |-> rec.id],
                              args.interactive, dry, answer, code)
         IN IF ~type_ignored(rec.type, args.ignore_types)
            THEN /\ calls' = Append(calls, call)
                 /\ zone' = IF call.outcome = "ok"
                            THEN [zone EXCEPT ![domain.name] = remote_delete(@, rec.id)]
                            ELSE zone
                 /\ pc' = IF call.outcome = "exit" THEN "exit" ELSE pc
                 /\ domain' = IF call.outcome = "exit" THEN domain
                              ELSE [domain EXCEPT !.stats = stats_deleted(@, call)]
                 /\ i' = IF call.outcome = "exit" THEN i ELSE i + 1
            ELSE /\ domain' = [domain EXCEPT !.stats = stats_ignored(@)]
                 /\ i' = i + 1
                 /\ UNCHANGED <<pc, calls, zone>>
    /\ UNCHANGED <<args, dry, conf, response_file, di, unmatched_remote,
                   unmatched_local, finished, run>>

\* delete_unconfigured_at_remote returns: the domain is done
DeleteDone ==
    /\ pc = "delete"
    /\ i > Len(unmatched_remote)
    /\ pc' = "loop"
    /\ di' = di + 1
    /\ i' = 1
    /\ finished' = Append(finished, summary(domain.stats))
    /\ UNCHANGED <<args, dry, conf, zone, response_file, domain, unmatched_remote,
                   unmatched_local, calls, run>>

\* sync returns after the last domain
SyncReturn ==
    /\ pc = "loop"
    /\ di > Len(conf)
    /\ pc' = "returned"
    /\ UNCHANGED <<args, dry, conf, zone, response_file, di, domain, unmatched_remote,
                   unmatched_local, i, calls, finished, run>>

Next ==
    \/ SyncEntry
    \/ SkipDomain
    \/ EnterDomain
    \/ CheckLocal
    \/ FetchRemote
    \/ MatchStep
    \/ AfterMatch
    \/ UpdateStep
    \/ UpdateDone
    \/ CreateStep
    \/ CreateDone
    \/ DeleteStep
    \/ DeleteDone
    \/ SyncReturn

\* ------------------------------------------------------------------- inputs

\* the most local records, and the most remote records, of one domain
MaxLocal == 2

MaxRemote == 2

SeqsUpTo(S, n) == UNION {[1..k -> S] : k \in 0..n}

\* a local configuration as convert_local_records_to_data walks it: the
\* entries under "." come first
RootFirst(records) ==
    \A j, k \in DOMAIN records : j < k => ~(records[j].pos # "." /\ records[k].pos = ".")

LocalConfigs(Entries, n) == {records \in SeqsUpTo(Entries, n) : RootFirst(records)}

\* the remote service numbers its records: ids base+1, base+2, ... (from 40
\* in the first domain, from 50 in the second)
numbered(records, base) ==
    [k \in DOMAIN records |-> merge(records[k], [id |-> IntV(base + k)])]

RemoteZones(Templates, n, base) == {numbered(records, base) : records \in SeqsUpTo(Templates, n)}

D1 == "example.com"

D2 == "example.org"

\* record contents: "ab", "ac", "abc"
cAB == <<1, 2>>

cAC == <<1, 3>>

cABC == <<1, 2, 3>>

\* one record of the remote service, before it is numbered
remote_rec(name, type, content, ttl, prio) ==
    [name |-> name, type |-> type, content |-> content, ttl |-> IntV(ttl), prio |-> IntV(prio)]

\* the arguments of a sync without --api-response and without --domain
PlainArgs ==
    {[only_domain |-> "", preserve_remote |-> p, ignore_types |-> <<"SOA">>,
      dry |-> d, interactive |-> a, api_response |-> FALSE] :
        p \in BOOLEAN, d \in BOOLEAN, a \in BOOLEAN}

\* --api-response, with and without --domain
ResponseArgs ==
    {[only_domain |-> o, preserve_remote |-> FALSE, ignore_types |-> <<"SOA">>,
      dry |-> FALSE, interactive |-> a, api_response |-> TRUE] :
        o \in {"", D1}, a \in BOOLEAN}

\* Spec: runs of sync over one or two domains.  Local entries: three good
\* ones, one carrying an id, one with a ttl that is a string.
RunEntries ==
    {[pos |-> ".", data |-> [type |-> "A", content |-> cAB]],
     [pos |-> ".", data |-> [type |-> "A", content |-> cAC]],
     [pos |-> "www", data |-> [type |-> "A", content |-> cAB, ttl |-> IntV(300)]],
     [pos |-> ".", data |-> [type |-> "A", content |-> cAB, id |-> IntV(5)]],
     [pos |-> "www", data |-> [type |-> "A", content |-> cAC, ttl |-> StrV(300)]]}

RunTemplates(d) ==
    {remote_rec(d, "A", cAB, DefaultTTL, DefaultPrio),
     remote_rec(d, "A", cABC, 300, DefaultPrio),
     remote_rec(d, "SOA", cAB, DefaultTTL, DefaultPrio),
     remote_rec(d, "soa", cAB, DefaultTTL, DefaultPrio)}

RunWorlds ==
    {[conf |-> <<[name |-> D1, records |-> l]>>, zone |-> (D1 :> r)] :
        l \in LocalConfigs(RunEntries, MaxLocal),
        r \in RemoteZones(RunTemplates(D1), MaxRemote, 40)}
    \cup
    {[conf |-> <<[name |-> D1, records |-> l1], [name |-> D2, records |-> l2]>>,
      zone |-> (D1 :> r1 @@ D2 :> r2)] :
        l1 \in LocalConfigs(RunEntries, MaxLocal - 1),
        r1 \in RemoteZones(RunTemplates(D1), MaxRemote - 1, 40),
        l2 \in LocalConfigs({[pos |-> ".", data |-> [type |-> "A", content |-> cAB]]},
                            MaxLocal - 1),
        r2 \in RemoteZones({remote_rec(D2, "A", cAC, DefaultTTL, DefaultPrio)},
                           MaxRemote - 1, 50)}

Init == InitWith(PlainArgs \cup ResponseArgs, RunWorlds)

Spec == Init /\ [][Next]_vars

\* SpecFields: one domain with at most MaxLocal - 1 local and MaxRemote - 1
\* remote records, whose content, ttl and prio take empty, default and other
\* values.
FieldEntries ==
    {[pos |-> ".", data |-> d] :
        d \in {[type |-> "MX", content |-> c] : c \in {cAB, <<>>}}
           \cup {[type |-> "MX", content |-> c, ttl |-> IntV(300)] : c \in {cAB, <<>>}}
           \cup {[type |-> "MX", content |-> c, prio |-> IntV(10)] : c \in {cAB, <<>>}}
           \cup {[type |-> "MX", content |-> c, ttl |-> IntV(300), prio |-> IntV(10)] :
                    c \in {cAB, <<>>}}}

FieldTemplates ==
    {remote_rec(D1, "MX", c, t, p) : c \in {cAB, cAC}, t \in {DefaultTTL, 300},
                                     p \in {DefaultPrio, 10}}
    \cup {remote_rec(D1, "NS", cAB, DefaultTTL, DefaultPrio)}

FieldWorlds ==
    {[conf |-> <<[name |-> D1, records |-> l]>>, zone |-> (D1 :> r)] :
        l \in LocalConfigs(FieldEntries, MaxLocal - 1),
        r \in RemoteZones(FieldTemplates, MaxRemote - 1, 40)}

\* with --domain naming a domain that is not configured, all are skipped
FieldArgs ==
    {a \in PlainArgs : ~a.preserve_remote}
    \cup {[only_domain |-> D2, preserve_remote |-> FALSE, ignore_types |-> <<"SOA">>,
           dry |-> FALSE, interactive |-> FALSE, api_response |-> FALSE]}

InitFields == InitWith(FieldArgs, FieldWorlds)

SpecFields == InitFields /\ [][Next]_vars

\* SpecPair: two runs of sync, one after the other, over the same local
\* configuration of one domain and the zone as the first run left it.  One
\* local entry sets a ttl of 0.
PairEntries ==
    {[pos |-> ".", data |-> [type |-> "A", content |-> cAB]],
     [pos |-> ".", data |-> [type |-> "A", content |-> cAC]],
     [pos |-> "www", data |-> [type |-> "A", content |-> cAB, ttl |-> IntV(300)]],
     [pos |-> "www", data |-> [type |-> "A", content |-> cAC, ttl |-> IntV(0)]]}

PairTemplates ==
    {remote_rec(D1, "A", cAB, DefaultTTL, DefaultPrio),
     remote_rec(D1, "A", cABC, 300, DefaultPrio),
     remote_rec(D1, "SOA", cAB, DefaultTTL, DefaultPrio)}

PairWorlds ==
    {[conf |-> <<[name |-> D1, records |-> l]>>, zone |-> (D1 :> r)] :
        l \in LocalConfigs(PairEntries, MaxLocal),
        r \in RemoteZones(PairTemplates, MaxRemote, 40)}

\* the first run: not interactive, or dry and interactive, or skipping all
PairArgs ==
    {a \in PlainArgs : ~a.interactive \/ (a.dry /\ ~a.preserve_remote)}
    \cup {a \in FieldArgs : a.only_domain # ""}

\* the second run: not interactive
SecondArgs == {a \in PlainArgs : ~a.interactive}

InitPair == InitWith(PairArgs, PairWorlds)

\* main() is run a second time, with arguments of its own, after the first
\* sync has returned
SecondSync ==
    /\ pc = "returned"
    /\ run = 1
    /\ run' = 2
    /\ args' \in SecondArgs
    /\ dry' = args'.dry
    /\ pc' = "sync"
    /\ di' = 1
    /\ domain' = Domain
    /\ unmatched_remote' = <<>>
    /\ unmatched_local' = <<>>
    /\ i' = 1
    /\ calls' = <<>>
    /\ UNCHANGED <<conf, zone, response_file, finished>>

NextPair == Next \/ SecondSync

SpecPair == InitPair /\ [][NextPair]_vars

\* SpecExport: main() runs the convert command on a domain and, the printed
\* configuration having been saved as the domain's file, sync; or it runs
\* sync on a configuration written by hand.
ExportTemplates ==
    {remote_rec(D1, "A", cAB, DefaultTTL, DefaultPrio),
     remote_rec(D1, "MX", cAB, 0, 10),
     remote_rec("www." \o D1, "A", cAB, 300, DefaultPrio),
     remote_rec("www." \o D1, "A", cAC, DefaultTTL, DefaultPrio),
     remote_rec(D1 \o "." \o D1, "A", cAB, DefaultTTL, DefaultPrio),
     remote_rec(D1, "SOA", cAB, DefaultTTL, DefaultPrio)}

ExportWorlds ==
    {[conf |-> <<>>, zone |-> (D1 :> r)] : r \in RemoteZones(ExportTemplates, MaxRemote, 40)}

\* the convert command needs --domain; --api-response is optional
ConvertArgs ==
    {[only_domain |-> D1, preserve_remote |-> FALSE, ignore_types |-> <<"SOA">>,
      dry |-> FALSE, interactive |-> FALSE, api_response |-> a] : a \in BOOLEAN}

\* main, lines 269-275: the process was started with the command convert
InitConvert ==
    /\ args \in ConvertArgs
    /\ \E w \in ExportWorlds : conf = w.conf /\ zone = w.zone
    /\ response_file = zone[args.only_domain]
    /\ dry = args.dry
    /\ pc = "convert"
    /\ di = 1
    /\ domain = Domain
    /\ unmatched_remote = <<>>
    /\ unmatched_local = <<>>
    /\ i = 1
    /\ calls = <<>>
    /\ finished = <<>>
    /\ run = 1

InitExport == InitConvert \/ InitFields

\* convert: the remote records of the domain are read and rendered in the
\* format of the local configuration (the name of the domain is ASCII, which
\* convert_punycode leaves as it is); the rendering becomes the domain's
\* local configuration
Convert ==
    /\ pc = "convert"
    /\ \E code \in ApiCodes :
         LET call == api_call(args.only_domain, "nameserver.info",
                              [domain |-> args.only_domain], FALSE, FALSE, TRUE, code)
             failed == ~args.api_response /\ call.outcome = "exit"
             record == IF args.api_response THEN response_file ELSE zone[args.only_domain]
             remote_records == SeqMap(LAMBDA rec : import_records(rec, "", ""), record)
         IN /\ calls' = IF args.api_response THEN calls ELSE Append(calls, call)
            /\ pc' = IF failed THEN "exit" ELSE "returned"
            /\ domain' = IF failed THEN [Domain EXCEPT !.name = args.only_domain]
                         ELSE [Domain EXCEPT !.name = args.only_domain,
                                             !.remote_records = remote_records]
            /\ conf' = IF failed THEN conf
                       ELSE <<[name |-> args.only_domain,
                               records |-> to_local_conf_format(args.only_domain,
                                               remote_records, args.ignore_types)]>>
    /\ UNCHANGED <<args, dry, zone, response_file, di, unmatched_remote,
                   unmatched_local, i, finished, run>>

NextExport == Next \/ SecondSync \/ Convert

SpecExport == InitExport /\ [][NextExport]_vars

\* SpecMatch: runs of sync over one domain whose local records have the same
\* name and type and whose remote records are close to both ("abc"), equal to
\* one ("ab") or close to none ("cd").
cCD == <<3, 4>>

MatchEntries ==
    {[pos |-> ".", data |-> [type |-> "A", content |-> cAB]],
     [pos |-> ".", data |-> [type |-> "A", content |-> cAC]]}

MatchTemplates ==
    {remote_rec(D1, "A", cABC, DefaultTTL, DefaultPrio),
     remote_rec(D1, "A", cAB, DefaultTTL, DefaultPrio),
     remote_rec(D1, "A", cCD, DefaultTTL, DefaultPrio)}

MatchWorlds ==
    {[conf |-> <<[name |-> D1, records |-> l]>>, zone |-> (D1 :> r)] :
        l \in LocalConfigs(MatchEntries, MaxLocal),
        r \in RemoteZones(MatchTemplates, MaxRemote, 40)}

MatchArgs == {a \in FieldArgs : ~a.interactive}

InitMatch == InitWith(MatchArgs, MatchWorlds)

SpecMatch == InitMatch /\ [][Next]_vars

\* ------------------------------------------------------------------- claims

Mutations == {"nameserver.updateRecord", "nameserver.createRecord", "nameserver.deleteRecord"}

\* the invocations of one method, made for one domain, with one of the outcomes
calls_of(log, dom, method, outcomes) ==
    {k \in DOMAIN log : log[k].dom = dom /\ log[k].method = method
                                          /\ log[k].outcome \in outcomes}

\* C1: in a run with dry set (and so in every run with api_response set) no
\* updateRecord, createRecord or deleteRecord call reaches the remote API.
C1_DryRunNeverMutates ==
    (dry \/ args.api_response) =>
        \A k \in DOMAIN calls : calls[k].method \in Mutations => ~sent(calls[k])

\* C1 witness: a dry run forced by api_response, interactive and confirmed,
\* that has come to an update, a create and a delete without sending any.
C1_Witness ==
    /\ dry /\ args.api_response /\ args.interactive /\ ~args.dry
    /\ \A m \in Mutations : calls_of(calls, domain.name, m, {"dry"}) # {}

\* C2: delete_unconfigured_at_remote, for an unmatched remote record of an
\* ignored type (exact membership), issues no delete call and adds one to
\* stats.ignored and nothing to stats.deleted; for one of another type it
\* issues one delete call for its id and, the call having returned, adds one
\* to stats.deleted and nothing to stats.ignored.
C2_IgnoreTypesPreserved ==
    [][(pc = "delete" /\ i <= Len(unmatched_remote)) =>
         LET rec == unmatched_remote[i]
             listed == \E k \in DOMAIN args.ignore_types : args.ignore_types[k] = rec.type
         IN IF listed
            THEN /\ calls' = calls
                 /\ domain'.stats.ignored = domain.stats.ignored + 1
                 /\ domain'.stats.deleted = domain.stats.deleted
            ELSE /\ Len(calls') = Len(calls) + 1
                 /\ SubSeq(calls', 1, Len(calls)) = calls
                 /\ calls'[Len(calls')].method = "nameserver.deleteRecord"
                 /\ calls'[Len(calls')].params = [id |-> rec.id]
                 /\ pc' # "exit" =>
                       /\ domain'.stats.deleted = domain.stats.deleted + 1
                       /\ domain'.stats.ignored = domain.stats.ignored]_vars

\* C2 witness: the delete loop has passed a record of type SOA and one of
\* type soa: the first was ignored, the second deleted.
C2_Witness ==
    /\ pc = "delete" /\ i = 3
    /\ unmatched_remote[1].type = "SOA" /\ unmatched_remote[2].type = "soa"
    /\ domain.stats.ignored = 1 /\ domain.stats.deleted = 1
    /\ calls_of(calls, domain.name, "nameserver.deleteRecord", {"ok"}) # {}

\* C3: when sync has finished a domain, its stats satisfy
\* unchanged = total_remote - updated - deleted and
\* changed = updated + added + deleted.
C3_StatsArithmetic ==
    \A k \in DOMAIN finished :
        LET s == finished[k].stats
        IN /\ s.unchanged = s.total_remote - s.updated - s.deleted
           /\ s.changed = s.updated + s.added + s.deleted

\* C4: an update, create or delete call that returns a code other than 1000
\* is the last API call of the run, and the run has stopped.
C4_FailureStopsRun ==
    \A k \in DOMAIN calls :
        (calls[k].method \in Mutations /\ sent(calls[k]) /\ calls[k].code # CodeOk)
            => (k = Len(calls) /\ pc = "exit")

\* C4 witness: the create call of the first of two domains was answered
\* "domain unknown"; a record to delete and a second domain were still to come.
C4_Witness ==
    /\ pc = "exit" /\ Len(conf) = 2 /\ di = 1
    /\ calls # <<>>
    /\ calls[Len(calls)].method = "nameserver.createRecord"
    /\ calls[Len(calls)].code = CodeDomainUnknown
    /\ \E k \in DOMAIN unmatched_remote :
          ~(unmatched_remote[k].type \in Range(args.ignore_types))
    /\ conf[2].records # <<>>

\* a field of a local configuration entry, as the Record will hold it
entry_field(e, key) == IF key \in DOMAIN e.data THEN e.data[key] ELSE Record[key]

\* a local configuration with a record carrying an id, two records with the
\* same (type, name, content), or a ttl or prio that is not an integer
faulty_config(records) ==
    \/ \E k \in DOMAIN records : entry_field(records[k], "id") # None
    \/ \E j, k \in DOMAIN records :
          /\ j < k
          /\ records[j].pos = records[k].pos
          /\ entry_field(records[j], "type") = entry_field(records[k], "type")
          /\ entry_field(records[j], "content") = entry_field(records[k], "content")
    \/ \E k \in DOMAIN records :
          \/ entry_field(records[k], "ttl")[1] # "int"
          \/ entry_field(records[k], "prio")[1] # "int"

\* C5: for a domain whose local configuration is faulty no API call is made
\* at all: neither nameserver.info nor an update, create or delete.
C5_ConfigErrorBeforeRemote ==
    \A k \in DOMAIN conf :
        faulty_config(conf[k].records) =>
            \A j \in DOMAIN calls : calls[j].dom # conf[k].name

\* C5 witness: the run has stopped at a domain with two records of the same
\* type, name and content, none of them with an id or a bad ttl.
C5_Witness ==
    /\ pc = "exit" /\ di = 1 /\ calls = <<>>
    /\ Len(conf[1].records) = 2
    /\ conf[1].records[1] = conf[1].records[2]
    /\ check_local_records_config_without_duplicates(domain.local_records)

\* C6: in a finished interactive run that is not dry, each counter counts the
\* mutations that were confirmed and applied: a declined one is not counted.
C6_DeclinedNotCounted ==
    \A k \in DOMAIN finished :
        LET f == finished[k]
            applied(m) == Cardinality(calls_of(f.calls, f.name, m, {"ok"}))
        IN (f.args.interactive /\ ~f.dry) =>
             /\ f.stats.updated = applied("nameserver.updateRecord")
             /\ f.stats.added = applied("nameserver.createRecord")
             /\ f.stats.deleted = applied("nameserver.deleteRecord")

\* C7: a dry run ends with the same updated, added, deleted and ignored
\* counters as a run that is neither dry nor interactive, all of whose calls
\* succeeded, over the same local records, remote snapshot and options.
C7_DryStatsAsApplied ==
    \A j, k \in DOMAIN finished :
        LET f == finished[j]
            g == finished[k]
        IN (/\ f.dry /\ ~g.dry /\ ~g.args.interactive
            /\ f.name = g.name /\ f.local = g.local /\ f.remote = g.remote
            /\ f.args.ignore_types = g.args.ignore_types
            /\ f.args.preserve_remote = g.args.preserve_remote)
           => /\ f.stats.updated = g.stats.updated
              /\ f.stats.added = g.stats.added
              /\ f.stats.deleted = g.stats.deleted
              /\ f.stats.ignored = g.stats.ignored

\* C7 witness: a dry run, then a run that applied an update, a create and a
\* delete to the same snapshot, and ignored one record.
C7_Witness ==
    /\ Len(finished) = 2
    /\ finished[1].dry /\ ~finished[2].dry /\ ~finished[2].args.interactive
    /\ finished[1].remote = finished[2].remote
    /\ finished[1].args.preserve_remote = finished[2].args.preserve_remote
    /\ finished[2].stats.updated = 1 /\ finished[2].stats.added = 1
    /\ finished[2].stats.deleted = 1
    /\ \A m \in Mutations : calls_of(finished[2].calls, D1, m, {"ok"}) # {}

\* the remote record a matched local record carries the id of
remote_of(loc_rec) == SeqFilter(LAMBDA r : r.id = loc_rec.id, domain.remote_records)[1]

\* is the value of the attribute neither empty nor zero?
non_empty(key, value) == IF key = "content" THEN value # <<>> ELSE truthy(value)

\* C9: an update call holds content, ttl or prio only if the local value is
\* non-empty and differs from the value of the remote record with that id.
C9_OnlyNonEmptyDiffering ==
    \A k \in calls_of(calls, domain.name, "nameserver.updateRecord",
                      {"declined", "dry", "ok", "exit"}) :
        \A key \in DOMAIN calls[k].params \ {"id"} :
            /\ non_empty(key, calls[k].params[key])
            /\ calls[k].params[key] #
                 SeqFilter(LAMBDA r : r.id = calls[k].params.id, domain.remote_records)[1][key]

C8_PartitionDisjoint ==
    pc \in {"update", "create", "delete"} =>
        LET local == domain.local_records
            remote == domain.remote_records
            update_set == {k \in DOMAIN local : local[k] \in Range(matched_local(local))}
            create_set == {k \in DOMAIN local : local[k] \in Range(unmatched_local)}
            delete_set == {k \in DOMAIN unmatched_remote :
                             ~(unmatched_remote[k].type \in Range(args.ignore_types))}
            carriers(id) == {k \in DOMAIN local : local[k].id = id}
        IN /\ update_set \cap create_set = {}
           /\ update_set \cup create_set = DOMAIN local
           /\ \A k \in update_set : \E r \in DOMAIN remote : remote[r].id = local[k].id
           /\ \A k \in create_set : local[k].id = None
           /\ \A r \in DOMAIN remote :
                 /\ Cardinality(carriers(remote[r].id)) <= 1
                 /\ (remote[r] \in Range(unmatched_remote)) # (carriers(remote[r].id) # {})
           /\ \A k \in update_set, d \in delete_set : local[k].id # unmatched_remote[d].id
           /\ \A u \in calls_of(calls, domain.name, "nameserver.updateRecord",
                                {"declined", "dry", "ok", "exit"}),
                 d \in calls_of(calls, domain.name, "nameserver.deleteRecord",
                                {"declined", "dry", "ok", "exit"}) :
                 calls[u].params.id # calls[d].params.id

\* C8 witness: of two local records with the same name and type one was
\* matched and updated, the other is to be created, and a remote record is
\* deleted.
C8_Witness ==
    /\ pc = "delete" /\ i > Len(unmatched_remote)
    /\ Len(domain.local_records) = 2
    /\ domain.local_records[1].name = domain.local_records[2].name
    /\ Len(matched_local(domain.local_records)) = 1
    /\ Len(unmatched_local) = 1
    /\ calls_of(calls, domain.name, "nameserver.updateRecord", {"ok"}) # {}
    /\ calls_of(calls, domain.name, "nameserver.deleteRecord", {"ok"}) # {}

AllOutcomes == {"declined", "dry", "ok", "exit"}

\* C11: the payload of a create call holds only attributes whose local value
\* is non-empty, and none at its default: no id, no ttl of 3600, no prio of 0,
\* no empty string.
C11_CreatePayloadOmitsDefaults ==
    \A k \in calls_of(calls, domain.name, "nameserver.createRecord", AllOutcomes) :
        LET payload == calls[k].params
        IN /\ \A key \in DOMAIN payload \ {"domain"} :
                 IF key \in {"id", "ttl", "prio"} THEN truthy(payload[key])
                 ELSE IF key = "content" THEN payload[key] # <<>>
                 ELSE payload[key] # ""
           /\ "id" \notin DOMAIN payload
           /\ "ttl" \in DOMAIN payload => payload.ttl # Record.ttl
           /\ "prio" \in DOMAIN payload => payload.prio # Record.prio

\* a first sync that was neither dry nor interactive, ran without
\* preserve_remote and finished the domain: all of its calls succeeded
converged(dom) ==
    \E k \in DOMAIN finished :
        /\ finished[k].run = 1 /\ finished[k].name = dom
        /\ ~finished[k].dry /\ ~finished[k].args.interactive
        /\ ~finished[k].args.preserve_remote

\* C12: a second sync of a domain, after a first one that was neither dry nor
\* interactive, ran without preserve_remote and succeeded in every call,
\* issues no update, create or delete call for that domain.
C12_SecondSyncIdle ==
    run = 2 =>
        \A k \in DOMAIN calls :
            calls[k].method \in Mutations => ~converged(calls[k].dom)

\* C13: with preserve_remote no deleteRecord call is issued and no record is
\* counted as deleted or ignored, whatever unmatched_remote holds; and when
\* the domain is done, one update call has been issued for every matched
\* local record that differs from its remote record and one create call for
\* every local record without an id.
C13_PreserveRemote ==
    args.preserve_remote =>
        /\ \A k \in DOMAIN calls : calls[k].method # "nameserver.deleteRecord"
        /\ domain.stats.deleted = 0 /\ domain.stats.ignored = 0
        /\ (pc \in {"loop", "returned"} /\ finished # <<>>
              /\ finished[Len(finished)].name = domain.name) =>
             LET matched == matched_local(domain.local_records)
                 differing == {k \in DOMAIN matched :
                                 DOMAIN collect_changes(matched[k], domain.remote_records) # {}}
             IN /\ Cardinality(calls_of(calls, domain.name, "nameserver.updateRecord",
                                        AllOutcomes)) = Cardinality(differing)
                /\ Cardinality(calls_of(calls, domain.name, "nameserver.createRecord",
                                        AllOutcomes)) = Len(unmatched_local)

\* C13 witness: a run with preserve_remote is done with a domain: it has
\* applied an update and a create, and the remote record that no local record
\* matched, of a type that is not ignored, is still in the zone.
C13_Witness ==
    /\ args.preserve_remote /\ pc = "returned" /\ Len(finished) = 1
    /\ calls_of(calls, domain.name, "nameserver.updateRecord", {"ok"}) # {}
    /\ calls_of(calls, domain.name, "nameserver.createRecord", {"ok"}) # {}
    /\ \E k \in DOMAIN unmatched_remote :
          /\ ~type_ignored(unmatched_remote[k].type, args.ignore_types)
          /\ \E j \in DOMAIN zone[domain.name] :
                zone[domain.name][j].id = unmatched_remote[k].id

\* the (name, type, content, ttl, prio) of a record
fields_of(rec) == <<rec.name, rec.type, rec.content, rec.ttl, rec.prio>>

\* a list of records as a collection: how often each (name, type, content,
\* ttl, prio) occurs in it
collection(records) ==
    [t \in {fields_of(records[k]) : k \in DOMAIN records} |->
        Cardinality({k \in DOMAIN records : fields_of(records[k]) = t})]

\* C14: when the local configuration of a domain is the rendering of its
\* remote records by to_local_conf_format, none of them of an ignored type,
\* the rendering holds no ttl or prio at its default, and the local records
\* convert_local_records_to_data reads from it have the same (name, type,
\* content, ttl, prio) values, as often, as the remote records.
C14_ExportInverse ==
    (/\ pc = "check"
     /\ conf[di].records =
           to_local_conf_format(domain.name, zone[domain.name], args.ignore_types)
     /\ \A k \in DOMAIN zone[domain.name] :
           ~type_ignored(zone[domain.name][k].type, args.ignore_types))
    => /\ \A k \in DOMAIN conf[di].records :
             \A attr \in {"ttl", "prio"} \cap DOMAIN conf[di].records[k].data :
                 conf[di].records[k].data[attr] # Record[attr]
       /\ collection(domain.local_records) = collection(zone[domain.name])

\* the remote records match_remote_to_local_records has gone through
processed ==
    IF pc = "match" THEN 1..(i - 1)
    ELSE IF pc \in {"update", "create", "delete"} THEN DOMAIN domain.remote_records
    ELSE {}

\* the local records with the name and type of a remote record
sharers(rem_rec) ==
    {k \in DOMAIN domain.local_records :
        /\ domain.local_records[k].name = rem_rec.name
        /\ domain.local_records[k].type = rem_rec.type}

\* C15 as stated: a remote record that has been processed and shares its name
\* and type with exactly one local record has given that record its id,
\* whatever the other remote records are.
C15_SingleSharerGetsId ==
    \A r \in processed :
        LET rem_rec == domain.remote_records[r]
        IN Cardinality(sharers(rem_rec)) = 1 =>
              \A k \in sharers(rem_rec) : domain.local_records[k].id = rem_rec.id

\* C15 amended: ... provided no earlier remote record of the snapshot has the
\* same name and type (the local record is then still without an id when the
\* remote record is processed); the contents need not be similar.
C15_FirstSingleSharerGetsId ==
    \A r \in processed :
        LET rem_rec == domain.remote_records[r]
            earlier == {q \in 1..(r - 1) :
                          /\ domain.remote_records[q].name = rem_rec.name
                          /\ domain.remote_records[q].type = rem_rec.type}
        IN (Cardinality(sharers(rem_rec)) = 1 /\ earlier = {}) =>
              /\ \A k \in sharers(rem_rec) : domain.local_records[k].id = rem_rec.id
              /\ \A u \in DOMAIN unmatched_remote : unmatched_remote[u].id # rem_rec.id

\* C15 witness: matching is over; the only local record with the name and
\* type of the first remote record carries its id, although the similarity of
\* their contents is below the cutoff, and the snapshot holds another record.
C15_Witness ==
    /\ pc = "update" /\ Len(domain.remote_records) = 2
    /\ \E k \in DOMAIN domain.local_records :
          LET rem_rec == domain.remote_records[1]
              loc_rec == domain.local_records[k]
          IN /\ sharers(rem_rec) = {k}
             /\ loc_rec.id = rem_rec.id
             /\ ~ratio_geq(ratio(loc_rec.content, rem_rec.content), <<CutoffNum, CutoffDen>>)

\* the local records still without an id that have the name and type of the
\* remote record
candidates(rem_rec) ==
    {k \in sharers(rem_rec) : ~truthy(domain.local_records[k].id)}

\* the similarity of the content of local record k to that of the remote record
score(k, rem_rec) == ratio(domain.local_records[k].content, rem_rec.content)

\* the candidates whose similarity reaches the cutoff of 0.6
close_candidates(rem_rec) ==
    {k \in candidates(rem_rec) : ratio_geq(score(k, rem_rec), <<CutoffNum, CutoffDen>>)}

\* the step of the matching loop gives the id of the remote record to local
\* record k and to no other, and does not put the remote record on the list
assigned_to(k, rem_rec) ==
    /\ domain'.local_records =
          [domain.local_records EXCEPT ![k] = [@ EXCEPT !.id = rem_rec.id]]
    /\ unmatched_remote' = unmatched_remote

\* C16 as stated: with more than one candidate, and some of them close, the
\* id goes to the close candidate with the highest score, the first in
\* local_records among those with that score.
C16_BestFirstEnumerated ==
    [][(pc = "match" /\ i <= Len(domain.remote_records)) =>
         LET rem_rec == domain.remote_records[i]
             close == close_candidates(rem_rec)
         IN (Cardinality(candidates(rem_rec)) > 1 /\ close # {}) =>
               \E k \in close :
                   /\ assigned_to(k, rem_rec)
                   /\ \A j \in close \ {k} :
                         \/ ratio_gt(score(k, rem_rec), score(j, rem_rec))
                         \/ ~ratio_gt(score(j, rem_rec), score(k, rem_rec)) /\ k < j]_vars

\* C16 amended: ... the id goes to the close candidate with the highest
\* score; of those with that score, to the one whose content is the greatest
\* string, wherever it stands in local_records.  A candidate whose content is
\* that of the remote record is chosen.
C16_BestGreatestContent ==
    [][(pc = "match" /\ i <= Len(domain.remote_records)) =>
         LET rem_rec == domain.remote_records[i]
             close == close_candidates(rem_rec)
         IN (Cardinality(candidates(rem_rec)) > 1 /\ close # {}) =>
               /\ \E k \in close :
                     /\ assigned_to(k, rem_rec)
                     /\ \A j \in close \ {k} :
                           \/ ratio_gt(score(k, rem_rec), score(j, rem_rec))
                           \/ /\ ~ratio_gt(score(j, rem_rec), score(k, rem_rec))
                              /\ str_less(domain.local_records[j].content,
                                          domain.local_records[k].content)
               /\ \A k \in candidates(rem_rec) :
                     domain.local_records[k].content = rem_rec.content =>
                        assigned_to(k, rem_rec)]_vars

\* C16 witness: two candidates with the same score of 0.8 ("ab" and "ac"
\* against "abc"); the second in local_records, whose content is the greater,
\* has received the id.
C16_Witness ==
    /\ pc = "match" /\ i = 2 /\ Len(domain.local_records) = 2
    /\ sharers(domain.remote_records[1]) = {1, 2}
    /\ ~ratio_gt(ratio(domain.local_records[1].content, domain.remote_records[1].content),
                 ratio(domain.local_records[2].content, domain.remote_records[1].content))
    /\ ~ratio_gt(ratio(domain.local_records[2].content, domain.remote_records[1].content),
                 ratio(domain.local_records[1].content, domain.remote_records[1].content))
    /\ domain.local_records[1].id = None
    /\ domain.local_records[2].id = domain.remote_records[1].id

\* C17: with more than one candidate and none of them close, the step of the
\* matching loop appends the remote record to the unmatched list, leaves
\* every local record as it is, and goes on to the next remote record.
C17_NoneCloseUnmatched ==
    [][(pc = "match" /\ i <= Len(domain.remote_records)) =>
         LET rem_rec == domain.remote_records[i]
         IN (Cardinality(candidates(rem_rec)) > 1 /\ close_candidates(rem_rec) = {}) =>
               /\ unmatched_remote' = Append(unmatched_remote, rem_rec)
               /\ domain'.local_records = domain.local_records
               /\ pc' = "match" /\ i' = i + 1]_vars

\* C17 witness: the first remote record ("cd") had two candidates ("ab" and
\* "ac"), both with a similarity below 0.6: it is on the unmatched list and
\* no local record has an id.
C17_Witness ==
    /\ pc = "match" /\ i = 2 /\ Len(domain.local_records) = 2
    /\ sharers(domain.remote_records[1]) = {1, 2}
    /\ \A k \in {1, 2} :
          ~ratio_geq(ratio(domain.local_records[k].content, domain.remote_records[1].content),
                     <<CutoffNum, CutoffDen>>)
    /\ unmatched_remote = <<domain.remote_records[1]>>
    /\ \A k \in {1, 2} : domain.local_records[k].id = None

\* C18: during and after matching, the ids of the remote records being
\* pairwise distinct, every remote id is carried by at most one local record,
\* every local record with an id carries the id of a remote record, already
\* processed, of its name and type, and a step of the matching loop leaves
\* every id a local record has.
C18_MatchingInjective ==
    /\ [](pc \in {"match", "update", "create", "delete"} =>
            LET local == domain.local_records
                remote == domain.remote_records
            IN /\ \A r \in DOMAIN remote :
                     Cardinality({k \in DOMAIN local : local[k].id = remote[r].id}) <= 1
               /\ \A k \in DOMAIN local :
                     local[k].id # None =>
                        \E r \in processed :
                            /\ remote[r].id = local[k].id
                            /\ remote[r].name = local[k].name
                            /\ remote[r].type = local[k].type)
    /\ [][pc = "match" =>
            \A k \in DOMAIN domain.local_records :
                domain.local_records[k].id # None =>
                    domain'.local_records[k].id = domain.local_records[k].id]_vars

\* C18 witness: matching is over; the one local record has kept the id of the
\* first remote record, and the second remote record, of the same name and
\* type, is on the unmatched list.
C18_Witness ==
    /\ pc = "update" /\ Len(domain.local_records) = 1 /\ Len(domain.remote_records) = 2
    /\ domain.remote_records[1].id # domain.remote_records[2].id
    /\ sharers(domain.remote_records[2]) = {1}
    /\ domain.local_records[1].id = domain.remote_records[1].id
    /\ unmatched_remote = <<domain.remote_records[2]>>

====
